---- MODULE Spec2Model ----
(***************************************************************************)
(* Verification model of the ansible-tools repository.                     *)
(*                                                                         *)
(* The repository is a set of independent tools, so the module holds one   *)
(* specification per tool:                                                 *)
(*   SpecCfg    library/act_config.py        (main, merge, render)         *)
(*   SpecParse  library/act_config.py        (parse_blocks, line by line)  *)
(*   SpecMerge  library/act_config.py        (one call of merge)           *)
(*   SpecFormat library/act_config.py        (one call of format_block)    *)
(*   SpecHosts  library/aap_controller_hosts_enabled.py                    *)
(*   SpecGw     aap/gateway-monitor/gateway-monitor.py                     *)
(*   SpecDash   aap/aap-monitor/aap-monitor.py                             *)
(*   SpecFetch  both dashboards, the ticks that fetch in parallel          *)
(*   SpecJob    aap_tui/.../ui/screens/job_detail.py (JobDetailScreen)     *)
(*   SpecTui    aap_tui2/aap_tui.py          (AAPTui, jobs and Output)     *)
(* Text is modelled as sequences of one-character strings, so that         *)
(* formatting and parsing are computed and not assumed.                    *)
(***************************************************************************)
EXTENDS Integers, Sequences, FiniteSets, TLC

VARIABLES
    file,       \* act_config: the managed file, [exists, content]
    last,       \* act_config: the record of the last run of main()
    ps,         \* act_config: the position of parse_blocks in its two loops
    mg,         \* act_config: one call of merge(), its arguments and result
    fm,         \* act_config: one call of format_block()
    hp,         \* aap_controller_hosts_enabled: one run of the module
    gw,         \* gateway-monitor: the dashboard's histories and stats
    db,         \* aap-monitor: the dashboard's jobs and job list
    jd,         \* aap_tui: the JobDetailScreen and its tasks
    tu          \* aap_tui2: the AAPTui jobs and Output pane

vars == <<file, last, ps, mg, fm, hp, gw, db, jd, tu>>

\* a tool that takes no part in a specification stays off
Off == [pc |-> "off"]

-----------------------------------------------------------------------------
(* Text helpers (Python str operations used by the tools).                 *)

\* str.isspace() on the characters of the model's alphabet
IsSpace(c) == c \in {" ", "\t", "\n", "\r"}

RECURSIVE Concat(_)
\* "".join(parts)
Concat(parts) ==
    IF parts = <<>> THEN <<>> ELSE Head(parts) \o Concat(Tail(parts))

RECURSIVE Join(_, _)
\* sep.join(parts)
Join(sep, parts) ==
    IF parts = <<>> THEN <<>>
    ELSE IF Len(parts) = 1 THEN parts[1]
    ELSE parts[1] \o sep \o Join(sep, Tail(parts))

RECURSIVE LStrip(_)
\* str.lstrip()
LStrip(s) ==
    IF s /= <<>> /\ IsSpace(Head(s)) THEN LStrip(Tail(s)) ELSE s

RECURSIVE RStrip(_)
\* str.rstrip()
RStrip(s) ==
    IF s /= <<>> /\ IsSpace(s[Len(s)]) THEN RStrip(SubSeq(s, 1, Len(s) - 1)) ELSE s

\* str.strip()
Strip(s) == RStrip(LStrip(s))

\* BLANK_RE = ^\s*$ matched against one line
BLANK_RE(line) == \A i \in 1..Len(line) : IsSpace(line[i])

RECURSIVE ReplaceCRLF(_)
\* content.replace("\r\n", "\n")
ReplaceCRLF(s) ==
    IF s = <<>> THEN <<>>
    ELSE IF Len(s) >= 2 /\ s[1] = "\r" /\ s[2] = "\n"
         THEN <<"\n">> \o ReplaceCRLF(SubSeq(s, 3, Len(s)))
         ELSE <<s[1]>> \o ReplaceCRLF(Tail(s))

\* content.replace("\r", "\n")
ReplaceCR(s) == [i \in 1..Len(s) |-> IF s[i] = "\r" THEN "\n" ELSE s[i]]

RECURSIVE SplitNL(_, _)
\* content.split("\n"), cur being the line collected so far
SplitNL(s, cur) ==
    IF s = <<>> THEN <<cur>>
    ELSE IF Head(s) = "\n" THEN <<cur>> \o SplitNL(Tail(s), <<>>)
    ELSE SplitNL(Tail(s), Append(cur, Head(s)))

\* index of the first ":" of a line, 0 when there is none
FirstColon(line) ==
    IF \E i \in 1..Len(line) : line[i] = ":"
    THEN CHOOSE i \in 1..Len(line) :
            line[i] = ":" /\ \A j \in 1..(i - 1) : line[j] /= ":"
    ELSE 0

\* f"{k:<{key_width}}": the key left-justified, padded with spaces
LJust(k, key_width) ==
    k \o [i \in 1..(IF key_width > Len(k) THEN key_width - Len(k) ELSE 0) |-> " "]

-----------------------------------------------------------------------------
(* Values and blocks.  A value of a desired block is a YAML string,        *)
(* integer or boolean; s is its text (str(v), to_text(v)), n its number.   *)
(* A block is a Python dict: a sequence of [k, v] in insertion order.      *)

StrV(s) == [ty |-> "str", s |-> s, n |-> 0]
IntV(s, n) == [ty |-> "int", s |-> s, n |-> n]
BoolV(b) == [ty |-> "bool", s |-> IF b THEN <<"T", "r", "u", "e">>
                                  ELSE <<"F", "a", "l", "s", "e">>,
             n |-> IF b THEN 1 ELSE 0]

\* Python ==  on two values: a str never equals an int or a bool
PyEq(a, b) ==
    IF a.ty = "str" /\ b.ty = "str" THEN a.s = b.s
    ELSE IF a.ty /= "str" /\ b.ty /= "str" THEN a.n = b.n
    ELSE FALSE

\* to_text(ident)
to_text(v) == v.s

DictKeys(d) == {d[i].k : i \in 1..Len(d)}
DictHas(d, k) == \E i \in 1..Len(d) : d[i].k = k
DictGet(d, k) == d[CHOOSE i \in 1..Len(d) : d[i].k = k].v
\* d[k] = v: an existing key keeps its place
DictSet(d, k, v) ==
    IF DictHas(d, k)
    THEN [i \in 1..Len(d) |-> IF d[i].k = k THEN [k |-> k, v |-> v] ELSE d[i]]
    ELSE Append(d, [k |-> k, v |-> v])
\* dict == dict: the same keys with equal values, in any order
DictEq(a, b) ==
    /\ DictKeys(a) = DictKeys(b)
    /\ \A k \in DictKeys(a) : PyEq(DictGet(a, k), DictGet(b, k))

-----------------------------------------------------------------------------
(* act_config.parse_blocks                                                 *)

None == [set |-> FALSE, k |-> <<>>]
Some(k) == [set |-> TRUE, k |-> k]

\* content.replace("\r\n", "\n").replace("\r", "\n").split("\n")
parse_lines(content) == SplitNL(ReplaceCR(ReplaceCRLF(content)), <<>>)

\* one pass of the first loop: a blank line closes the raw block being collected
split_step(acc, line) ==
    IF BLANK_RE(line)
    THEN IF acc.cur /= <<>>
         THEN [raw_blocks |-> Append(acc.raw_blocks, acc.cur), cur |-> <<>>]
         ELSE acc
    ELSE [acc EXCEPT !.cur = Append(acc.cur, line)]

\* after the first loop: the last raw block is closed
split_end(acc) ==
    IF acc.cur /= <<>> THEN Append(acc.raw_blocks, acc.cur) ELSE acc.raw_blocks

\* a faulty continuation_value that forgets line.strip() (C6 must notice it)
continuation_value_NoLineStrip(old, line) == Strip(old \o <<" ">> \o line)

\* the value a continuation line leaves under last_key
continuation_value(old, line) == Strip(old \o <<" ">> \o Strip(line))

\* one pass of the inner loop of the second loop, acc = [block, last_key]
parse_line(acc, line) ==
    IF Len(line) > 0 /\ IsSpace(line[1])
    THEN IF ~acc.last_key.set
         THEN acc
         ELSE [acc EXCEPT !.block =
                 DictSet(acc.block, acc.last_key.k,
                         StrV(continuation_value(
                                IF DictHas(acc.block, acc.last_key.k)
                                THEN DictGet(acc.block, acc.last_key.k).s
                                ELSE <<>>,
                                line)))]
    ELSE LET c == FirstColon(line)
             key == IF c > 0 THEN Strip(SubSeq(line, 1, c - 1)) ELSE Strip(line)
             val == IF c > 0 THEN Strip(SubSeq(line, c + 1, Len(line))) ELSE <<>>
         IN  [block |-> DictSet(acc.block, key, StrV(val)), last_key |-> Some(key)]

RECURSIVE split_loop(_, _)
split_loop(lines, acc) ==
    IF lines = <<>> THEN acc ELSE split_loop(Tail(lines), split_step(acc, Head(lines)))

RECURSIVE parse_block_loop(_, _)
parse_block_loop(lines, acc) ==
    IF lines = <<>> THEN acc
    ELSE parse_block_loop(Tail(lines), parse_line(acc, Head(lines)))

parse_blocks(content) ==
    LET raw_blocks == split_end(split_loop(parse_lines(content),
                                           [raw_blocks |-> <<>>, cur |-> <<>>]))
    IN  [i \in 1..Len(raw_blocks) |->
            parse_block_loop(raw_blocks[i], [block |-> <<>>, last_key |-> None]).block]

-----------------------------------------------------------------------------
(* act_config.format_block, render                                         *)

RECURSIVE format_ordered_first(_, _)
\* the first loop of format_block: the keys of key_order that the block has
format_ordered_first(block, key_order) ==
    IF key_order = <<>> THEN <<>>
    ELSE (IF DictHas(block, Head(key_order)) THEN <<Head(key_order)>> ELSE <<>>)
         \o format_ordered_first(block, Tail(key_order))

SeqToSet(q) == {q[i] : i \in 1..Len(q)}

RECURSIVE format_ordered_rest(_, _, _)
\* the second loop of format_block: the keys not seen yet, in the block's order
format_ordered_rest(block, i, seen) ==
    IF i > Len(block) THEN <<>>
    ELSE IF block[i].k \notin seen
         THEN <<block[i].k>> \o format_ordered_rest(block, i + 1, seen \cup {block[i].k})
         ELSE format_ordered_rest(block, i + 1, seen)

\* the list "ordered" of format_block; key_order = <<>> stands for None or []
format_ordered(block, key_order) ==
    LET first == format_ordered_first(block, key_order)
    IN  first \o format_ordered_rest(block, 1, SeqToSet(first))

\* one line of a block
format_line(block, k, key_width) ==
    LET v == DictGet(block, k)
    IN  IF v.ty = "str" /\ v.s = <<>>
        THEN LJust(k, key_width) \o <<":">>
        ELSE LJust(k, key_width) \o <<":", " ">> \o v.s

format_block(block, key_order, key_width) ==
    LET ordered == format_ordered(block, key_order)
    IN  [i \in 1..Len(ordered) |-> format_line(block, ordered[i], key_width)]

RECURSIVE render_lines(_, _, _)
render_lines(blocks, key_order, key_width) ==
    IF blocks = <<>> THEN <<>>
    ELSE <<(<<>>)>> \o format_block(Head(blocks), key_order, key_width) \o <<(<<>>)>>
         \o render_lines(Tail(blocks), key_order, key_width)

render(blocks, key_order, windows_eol, key_width) ==
    LET eol == IF windows_eol THEN <<"\r", "\n">> ELSE <<"\n">>
    IN  Join(eol, render_lines(blocks, key_order, key_width)) \o eol

-----------------------------------------------------------------------------
(* act_config.index_blocks, merge                                          *)

\* b.get(id_key) is not None
HasId(b, id_key) == DictHas(b, id_key)
\* to_text(b.get(id_key))
Ident(b, id_key) == to_text(DictGet(b, id_key))

\* index[ident] = b on a dict modelled as a function
IndexPut(index, ident, b) ==
    [x \in (DOMAIN index) \cup {ident} |-> IF x = ident THEN b ELSE index[x]]
\* del index[ident]
IndexDel(index, ident) == [x \in (DOMAIN index) \ {ident} |-> index[x]]

RECURSIVE index_blocks_loop(_, _, _)
index_blocks_loop(blocks, id_key, out) ==
    IF blocks = <<>> THEN out
    ELSE index_blocks_loop(Tail(blocks), id_key,
            IF HasId(Head(blocks), id_key)
            THEN IndexPut(out, Ident(Head(blocks), id_key), Head(blocks))
            ELSE out)

index_blocks(blocks, id_key) == index_blocks_loop(blocks, id_key, <<>>)

RECURSIVE merge_present(_, _, _)
\* state == "present": the loop over desired_blocks, acc = [new_index, changed]
merge_present(desired, id_key, acc) ==
    IF desired = <<>> THEN acc
    ELSE LET d == Head(desired)
         IN  merge_present(Tail(desired), id_key,
                IF ~HasId(d, id_key) THEN acc
                ELSE IF Ident(d, id_key) \notin DOMAIN acc.new_index
                     THEN [new_index |-> IndexPut(acc.new_index, Ident(d, id_key), d),
                           changed |-> TRUE]
                     ELSE IF ~DictEq(acc.new_index[Ident(d, id_key)], d)
                          THEN [new_index |-> IndexPut(acc.new_index, Ident(d, id_key), d),
                                changed |-> TRUE]
                          ELSE acc)

RECURSIVE merge_absent(_, _, _)
\* state == "absent": the loop over desired_blocks
merge_absent(desired, id_key, acc) ==
    IF desired = <<>> THEN acc
    ELSE LET d == Head(desired)
         IN  merge_absent(Tail(desired), id_key,
                IF ~HasId(d, id_key) THEN acc
                ELSE IF Ident(d, id_key) \in DOMAIN acc.new_index
                     THEN [new_index |-> IndexDel(acc.new_index, Ident(d, id_key)),
                           changed |-> TRUE]
                     ELSE acc)

RECURSIVE merge_collect(_, _, _, _, _)
\* the two loops that build result, acc = [result, seen]; blocks without
\* id_key are kept when keep_plain (the loop over existing_blocks)
merge_collect(blocks, id_key, new_index, keep_plain, acc) ==
    IF blocks = <<>> THEN acc
    ELSE LET b == Head(blocks)
         IN  merge_collect(Tail(blocks), id_key, new_index, keep_plain,
                IF ~HasId(b, id_key)
                THEN IF keep_plain
                     THEN [acc EXCEPT !.result = Append(acc.result, b)]
                     ELSE acc
                ELSE IF Ident(b, id_key) \in DOMAIN new_index
                        /\ Ident(b, id_key) \notin acc.seen
                     THEN [result |-> Append(acc.result, new_index[Ident(b, id_key)]),
                           seen |-> acc.seen \cup {Ident(b, id_key)}]
                     ELSE acc)

\* merge(): [result, changed]
merge(desired_blocks, existing_blocks, id_key, state) ==
    LET start == [new_index |-> index_blocks(existing_blocks, id_key),
                  changed |-> FALSE]
        upd == IF state = "present" THEN merge_present(desired_blocks, id_key, start)
               ELSE IF state = "absent" THEN merge_absent(desired_blocks, id_key, start)
               ELSE start
        kept == merge_collect(existing_blocks, id_key, upd.new_index, TRUE,
                              [result |-> <<>>, seen |-> {}])
        all == IF state = "present"
               THEN merge_collect(desired_blocks, id_key, upd.new_index, FALSE, kept)
               ELSE kept
    IN  [result |-> all.result, changed |-> upd.changed]

-----------------------------------------------------------------------------
(* act_config.main                                                         *)

\* the "changed" main() computes before it looks at check_mode
main_changed(p, f, logical_changed, new_content) ==
    \/ (~f.exists /\ p.create)
    \/ logical_changed
    \/ (f.exists /\ new_content /= f.content)

\* a faulty main_write that forgets the check-mode exit (C4 must notice it)
main_write_NoCheckExit(p, f, changed, new_content) ==
    IF changed THEN [exists |-> TRUE, content |-> new_content] ELSE f

\* the file after the last part of main(): check mode exits before the write
main_write(p, f, changed, new_content) ==
    IF p.check_mode THEN f
    ELSE IF changed THEN [exists |-> TRUE, content |-> new_content]
    ELSE f

\* the outcome of main() on file f with parameters p: what it reports, the
\* file it leaves, and the values it computed on the way
main(p, f) ==
    IF ~f.exists /\ ~p.create
    THEN [failed |-> TRUE, changed |-> FALSE, file |-> f,
          existing_blocks |-> <<>>, new_blocks |-> <<>>,
          logical_changed |-> FALSE, new_content |-> <<>>]
    ELSE LET existing_content == IF f.exists THEN f.content ELSE <<>>
             existing_blocks == IF existing_content /= <<>>
                                THEN parse_blocks(existing_content) ELSE <<>>
             m == merge(p.blocks, existing_blocks, p.id_key, p.state)
             new_content == render(m.result, p.key_order, p.windows_eol, p.key_width)
             changed == main_changed(p, f, m.changed, new_content)
         IN  [failed |-> FALSE, changed |-> changed,
              file |-> main_write(p, f, changed, new_content),
              existing_blocks |-> existing_blocks, new_blocks |-> m.result,
              logical_changed |-> m.changed, new_content |-> new_content]

-----------------------------------------------------------------------------
(* Inputs of the act_config specifications.                                *)

MaxRuns == 2        \* runs of the module in one behaviour
MaxKeyWidth == 3    \* key_width is drawn from 0..MaxKeyWidth

kN == <<"N">>       \* the id_key
kV == <<"V">>

\* desired blocks, as the YAML of a task gives them
BlkA == <<[k |-> kN, v |-> StrV(<<"a">>)], [k |-> kV, v |-> StrV(<<"x">>)]>>
BlkAInt == <<[k |-> kV, v |-> IntV(<<"1">>, 1)], [k |-> kN, v |-> StrV(<<"a">>)]>>
BlkBBool == <<[k |-> kN, v |-> StrV(<<"b">>)], [k |-> kV, v |-> BoolV(TRUE)]>>
BlkPlain == <<[k |-> kV, v |-> StrV(<<"x">>)]>>
BlkIdInt == <<[k |-> kN, v |-> IntV(<<"1">>, 1)]>>

\* the "blocks" parameter of the runs of main()
CfgDesired == {<<>>, <<BlkA>>, <<BlkAInt>>, <<BlkBBool, BlkA>>}

\* key_order of the runs: None, the default (format_block has its own specification)
CfgKeyOrders == {<<>>}

CfgParams ==
    [blocks : CfgDesired, id_key : {kN}, key_order : CfgKeyOrders,
     windows_eol : BOOLEAN, state : {"present", "absent"},
     create : BOOLEAN, key_width : {MaxKeyWidth}, check_mode : BOOLEAN]

\* the files main() may find: none, an empty one, a hand-written one, one with
\* a continuation line and two blocks of the same id, one with CRLF endings
CfgFiles ==
    { [exists |-> FALSE, content |-> <<>>],
      [exists |-> TRUE, content |-> <<>>],
      [exists |-> TRUE, content |-> <<"N", ":", "a", "\n", "V", ":", "x", "\n">>],
      [exists |-> TRUE, content |->
         <<"N", ":", "a", "\n", "V", ":", "x", "\n", " ", "c", "\n", "\n",
           "N", ":", "a", "\n", "V", ":", "y", "\n">>],
      [exists |-> TRUE, content |-> <<"\r", "\n", "N", " ", ":", " ", "b", "\r", "\n", "\r", "\n">>] }

NoRun == [n |-> 0]

-----------------------------------------------------------------------------
(* SpecCfg: runs of act_config's main() on one file.                       *)

InitCfg ==
    /\ file \in CfgFiles
    /\ last = NoRun
    /\ ps = Off /\ mg = Off /\ fm = Off /\ hp = Off /\ gw = Off /\ db = Off
    /\ jd = Off /\ tu = Off

\* one run of the module with parameters p (create is read only when the
\* file is missing, so it keeps its default when the file exists)
RunModule(p) ==
    /\ last.n < MaxRuns
    /\ file.exists => p.create
    /\ LET r == main(p, file)
       IN  /\ file' = r.file
           /\ last' = [n |-> last.n + 1, params |-> p, before |-> file,
                       failed |-> r.failed, changed |-> r.changed,
                       existing_blocks |-> r.existing_blocks,
                       new_blocks |-> r.new_blocks,
                       logical_changed |-> r.logical_changed,
                       repeat |-> /\ last.n > 0
                                  /\ last.params = p
                                  /\ ~last.failed
                                  /\ ~last.params.check_mode]
    /\ UNCHANGED <<ps, mg, fm, hp, gw, db, jd, tu>>

NextCfg == \E p \in CfgParams : RunModule(p)

SpecCfg == InitCfg /\ [][NextCfg]_vars

\* C1 (as claimed): a second run with identical parameters and state=present
\* reports changed=false and leaves the file byte-identical.
C1_Idempotent ==
    (last.n > 0 /\ last.repeat /\ last.params.state = "present")
        => (~last.changed /\ file = last.before)

\* C4: check mode never modifies or creates the file; a missing file with
\* create=false fails and creates nothing; the changed value of a check-mode
\* run is the one a real run with the same parameters reports.
C4_CheckMode ==
    last.n > 0 =>
        /\ last.params.check_mode => file = last.before
        /\ (~last.before.exists /\ ~last.params.create)
              => (last.failed /\ file = last.before)
        /\ (last.params.check_mode /\ ~last.failed)
              => last.changed
                   = main([last.params EXCEPT !.check_mode = FALSE], last.before).changed

\* C4 witness: a check-mode run that reports a change and leaves the file
\* missing, after which the same parameters really create the file.
C4_Witness ==
    /\ last.n > 0
    /\ last.params.check_mode
    /\ last.changed
    /\ ~file.exists
    /\ main([last.params EXCEPT !.check_mode = FALSE], file).file.exists

-----------------------------------------------------------------------------
(* SpecMerge: one call of merge() on drawn arguments.                      *)

MaxDesired == 2     \* desired blocks in one call
MaxExisting == 3    \* blocks of the existing file in one call

SeqsUpTo(S, n) == UNION {[1..m -> S] : m \in 0..n}

\* existing blocks are parsed from a file: every value is a string
ExA == <<[k |-> kN, v |-> StrV(<<"a">>)], [k |-> kV, v |-> StrV(<<"x">>)]>>
ExA2 == <<[k |-> kN, v |-> StrV(<<"a">>)], [k |-> kV, v |-> StrV(<<"y">>)]>>
ExPlain == <<[k |-> kV, v |-> StrV(<<"y">>)]>>
Ex1 == <<[k |-> kN, v |-> StrV(<<"1">>)]>>

MergeDesired == SeqsUpTo({BlkA, BlkAInt, BlkBBool, BlkPlain, BlkIdInt}, MaxDesired)
MergeExisting == SeqsUpTo({ExA, ExA2, ExPlain, Ex1}, MaxExisting)

InitMerge ==
    /\ mg \in [pc : {"call"}, desired : MergeDesired, existing : MergeExisting,
               id_key : {kN}, state : {"present", "absent"}]
    /\ file = [exists |-> FALSE, content |-> <<>>] /\ last = NoRun
    /\ ps = Off /\ fm = Off /\ hp = Off /\ gw = Off /\ db = Off
    /\ jd = Off /\ tu = Off

Merge ==
    /\ mg.pc = "call"
    /\ LET r == merge(mg.desired, mg.existing, mg.id_key, mg.state)
       IN  mg' = [pc |-> "return", desired |-> mg.desired, existing |-> mg.existing,
                  id_key |-> mg.id_key, state |-> mg.state,
                  result |-> r.result, changed |-> r.changed]
    /\ UNCHANGED <<file, last, ps, fm, hp, gw, db, jd, tu>>

NextMerge == Merge

SpecMerge == InitMerge /\ [][NextMerge]_vars

\* the ids of the blocks of a list that have id_key
IdsOf(blocks, id_key) ==
    {Ident(blocks[i], id_key) : i \in {j \in 1..Len(blocks) : HasId(blocks[j], id_key)}}

\* C2 (as claimed): with state=present every existing block keeps its place,
\* one whose id a desired block has is replaced there by that desired block,
\* the desired blocks with a new id follow all existing blocks in the order
\* given, desired blocks without id_key are ignored and existing blocks
\* without id_key are kept.
C2_Upsert ==
    (mg.pc = "return" /\ mg.state = "present") =>
        LET E == mg.existing
            D == mg.desired
            R == mg.result
            IsNew(d) == HasId(d, mg.id_key) /\ Ident(d, mg.id_key) \notin IdsOf(E, mg.id_key)
            Matches(e, d) == /\ HasId(e, mg.id_key) /\ HasId(d, mg.id_key)
                             /\ Ident(e, mg.id_key) = Ident(d, mg.id_key)
        IN  /\ Len(R) >= Len(E)
            /\ \A i \in 1..Len(E) :
                  IF \E j \in 1..Len(D) : Matches(E[i], D[j])
                  THEN \E j \in 1..Len(D) : Matches(E[i], D[j]) /\ DictEq(R[i], D[j])
                  ELSE R[i] = E[i]
            /\ SubSeq(R, Len(E) + 1, Len(R)) = SelectSeq(D, IsNew)

\* C3 (as claimed): with state=absent exactly the existing blocks whose id a
\* desired block has are removed, the others are kept as they are and in
\* their order, and changed is true exactly when a block was removed.
C3_Remove ==
    (mg.pc = "return" /\ mg.state = "absent") =>
        LET Kept(e) == ~HasId(e, mg.id_key)
                       \/ Ident(e, mg.id_key) \notin IdsOf(mg.desired, mg.id_key)
        IN  /\ mg.result = SelectSeq(mg.existing, Kept)
            /\ mg.changed = (Len(mg.result) < Len(mg.existing))

-----------------------------------------------------------------------------
(* SpecFormat: one call of format_block() on drawn arguments.              *)

MaxKeyOrder == 2    \* entries of key_order in one call

kW == <<"W">>
FormatKeys == {kN, kV, kW}
FormatValues == {StrV(<<"x">>), StrV(<<>>), IntV(<<"1">>, 1)}

\* the blocks of at most two keys (a dict has no key twice)
FormatBlocks ==
    {<<>>}
    \cup {<<[k |-> a, v |-> x]>> : a \in FormatKeys, x \in FormatValues}
    \cup {<<[k |-> pr[1], v |-> x], [k |-> pr[2], v |-> y]>> :
            pr \in {q \in FormatKeys \X FormatKeys : q[1] /= q[2]},
            x \in FormatValues, y \in FormatValues}

InitFormat ==
    /\ fm \in [pc : {"call"}, block : FormatBlocks,
               key_order : SeqsUpTo(FormatKeys, MaxKeyOrder),
               key_width : 0..MaxKeyWidth]
    /\ file = [exists |-> FALSE, content |-> <<>>] /\ last = NoRun
    /\ ps = Off /\ mg = Off /\ hp = Off /\ gw = Off /\ db = Off
    /\ jd = Off /\ tu = Off

Format ==
    /\ fm.pc = "call"
    /\ fm' = [pc |-> "return", block |-> fm.block, key_order |-> fm.key_order,
              key_width |-> fm.key_width,
              lines |-> format_block(fm.block, fm.key_order, fm.key_width)]
    /\ UNCHANGED <<file, last, ps, mg, hp, gw, db, jd, tu>>

NextFormat == Format

SpecFormat == InitFormat /\ [][NextFormat]_vars

\* the key a written line shows: its text before the colon, stripped
LineKey(line) == Strip(SubSeq(line, 1, FirstColon(line) - 1))

RECURSIVE Distinct(_, _)
\* a list without its repeated entries (the first of each is kept)
Distinct(q, seen) ==
    IF q = <<>> THEN <<>>
    ELSE IF Head(q) \in seen THEN Distinct(Tail(q), seen)
    ELSE <<Head(q)>> \o Distinct(Tail(q), seen \cup {Head(q)})

\* C5 (as claimed): format_block writes exactly one line per key of the
\* block, for every key_order list: the keys key_order lists (and the block
\* has) first, in key_order's order, then the other keys in their order.
C5_OneLinePerKey ==
    fm.pc = "return" =>
        LET InBlock(k) == DictHas(fm.block, k)
            NotListed(k) == k \notin SeqToSet(fm.key_order)
            keys == [i \in 1..Len(fm.block) |-> fm.block[i].k]
            shown == [i \in 1..Len(fm.lines) |-> LineKey(fm.lines[i])]
        IN  /\ Len(fm.lines) = Len(fm.block)
            /\ \A k \in DictKeys(fm.block) :
                  Cardinality({i \in 1..Len(shown) : shown[i] = k}) = 1
            /\ shown = SelectSeq(Distinct(fm.key_order, {}), InBlock)
                         \o SelectSeq(keys, NotListed)

-----------------------------------------------------------------------------
(* SpecParse: parse_blocks() run line by line through its two loops.       *)

MaxLines == 3       \* lines of the parsed content

ParseLineSet ==
    { <<"k", ":", "v">>, <<"k", ":">>, <<" ", "c">>, <<"\t", "c", " ">>,
      <<>>, <<" ">>, <<"j">> }

ParseContents ==
    {Join(eol, ls) : eol \in {<<"\n">>, <<"\r", "\n">>},
                     ls \in SeqsUpTo(ParseLineSet, MaxLines)}

NoStep == [kind |-> "none"]

InitParse ==
    /\ ps \in [pc : {"start"}, content : ParseContents, lines : {<<>>},
               raw_blocks : {<<>>}, cur : {<<>>}, todo : {<<>>}, rest : {<<>>},
               inblock : {FALSE}, block : {<<>>}, last_key : {None},
               blocks : {<<>>}, step : {NoStep}]
    /\ file = [exists |-> FALSE, content |-> <<>>] /\ last = NoRun
    /\ mg = Off /\ fm = Off /\ hp = Off /\ gw = Off /\ db = Off
    /\ jd = Off /\ tu = Off

\* line 170 and the split of line 175
ParseNormalize ==
    /\ ps.pc = "start"
    /\ ps' = [ps EXCEPT !.pc = "split", !.lines = parse_lines(ps.content)]
    /\ UNCHANGED <<file, last, mg, fm, hp, gw, db, jd, tu>>

\* one pass of the loop of lines 175-181
ParseSplitLine ==
    /\ ps.pc = "split" /\ ps.lines /= <<>>
    /\ LET acc == split_step([raw_blocks |-> ps.raw_blocks, cur |-> ps.cur],
                             Head(ps.lines))
       IN  ps' = [ps EXCEPT !.lines = Tail(ps.lines),
                            !.raw_blocks = acc.raw_blocks, !.cur = acc.cur,
                            !.step = [kind |-> "split", line |-> Head(ps.lines),
                                      cur |-> ps.cur, raw_blocks |-> ps.raw_blocks]]
    /\ UNCHANGED <<file, last, mg, fm, hp, gw, db, jd, tu>>

\* lines 182-183, and the second loop begins
ParseSplitEnd ==
    /\ ps.pc = "split" /\ ps.lines = <<>>
    /\ ps' = [ps EXCEPT !.pc = "parse", !.cur = <<>>,
                        !.raw_blocks = split_end([raw_blocks |-> ps.raw_blocks,
                                                  cur |-> ps.cur]),
                        !.todo = split_end([raw_blocks |-> ps.raw_blocks,
                                            cur |-> ps.cur]),
                        !.step = NoStep]
    /\ UNCHANGED <<file, last, mg, fm, hp, gw, db, jd, tu>>

\* lines 186-188: the next raw block, with an empty block and no last_key
ParseBlockStart ==
    /\ ps.pc = "parse" /\ ~ps.inblock /\ ps.todo /= <<>>
    /\ ps' = [ps EXCEPT !.inblock = TRUE, !.rest = Head(ps.todo),
                        !.todo = Tail(ps.todo), !.block = <<>>,
                        !.last_key = None, !.step = NoStep]
    /\ UNCHANGED <<file, last, mg, fm, hp, gw, db, jd, tu>>

\* one pass of the loop of lines 190-208
ParseLine ==
    /\ ps.pc = "parse" /\ ps.inblock /\ ps.rest /= <<>>
    /\ LET acc == parse_line([block |-> ps.block, last_key |-> ps.last_key],
                             Head(ps.rest))
       IN  ps' = [ps EXCEPT !.rest = Tail(ps.rest),
                            !.block = acc.block, !.last_key = acc.last_key,
                            !.step = [kind |-> "line", line |-> Head(ps.rest),
                                      block |-> ps.block, last_key |-> ps.last_key]]
    /\ UNCHANGED <<file, last, mg, fm, hp, gw, db, jd, tu>>

\* line 210
ParseBlockEnd ==
    /\ ps.pc = "parse" /\ ps.inblock /\ ps.rest = <<>>
    /\ ps' = [ps EXCEPT !.inblock = FALSE, !.blocks = Append(ps.blocks, ps.block),
                        !.step = NoStep]
    /\ UNCHANGED <<file, last, mg, fm, hp, gw, db, jd, tu>>

\* line 212
ParseReturn ==
    /\ ps.pc = "parse" /\ ~ps.inblock /\ ps.todo = <<>>
    /\ ps' = [ps EXCEPT !.pc = "done", !.step = NoStep]
    /\ UNCHANGED <<file, last, mg, fm, hp, gw, db, jd, tu>>

NextParse ==
    \/ ParseNormalize
    \/ ParseSplitLine
    \/ ParseSplitEnd
    \/ ParseBlockStart
    \/ ParseLine
    \/ ParseBlockEnd
    \/ ParseReturn

SpecParse == InitParse /\ [][NextParse]_vars

\* the stepwise run returns what parse_blocks() returns
ParseStepsAgree == ps.pc = "done" => ps.blocks = parse_blocks(ps.content)

\* the step just taken read a line that begins with a space or a tab
ContinuationStep ==
    /\ ps.step.kind = "line"
    /\ ps.step.line /= <<>>
    /\ ps.step.line[1] \in {" ", "\t"}

\* the blocks other than through key k are as before the step
SameBut(k) ==
    /\ Len(ps.block) = Len(ps.step.block)
    /\ \A i \in 1..Len(ps.block) :
          ps.block[i].k = ps.step.block[i].k
          /\ (ps.block[i].k /= k => ps.block[i] = ps.step.block[i])

\* the non-blank runs of the lines of the content
RunStarts(lines) ==
    {i \in 1..Len(lines) :
        ~BLANK_RE(lines[i]) /\ (i = 1 \/ BLANK_RE(lines[i - 1]))}

\* what C6 says of the lines that are no continuation with a key before them:
\* a stray indented line is dropped, whitespace-only lines separate blocks
C6_StrayAndBlank ==
    /\ (ContinuationStep /\ ~ps.step.last_key.set)
          => (ps.block = ps.step.block /\ ~ps.last_key.set)
    /\ (ps.step.kind = "split" /\ BLANK_RE(ps.step.line))
          => /\ ps.cur = <<>>
             /\ ps.raw_blocks = IF ps.step.cur = <<>> THEN ps.step.raw_blocks
                                ELSE Append(ps.step.raw_blocks, ps.step.cur)
    /\ ps.pc = "done"
          => Len(ps.blocks) = Cardinality(RunStarts(parse_lines(ps.content)))

-----------------------------------------------------------------------------
(* aap_controller_hosts_enabled                                            *)

MaxApiHosts == 2    \* host records the host queries return in one run

HostIds == {"h1", "h2"}
\* the "enabled" field of a host record: true, false, or missing/None
EnabledValues == {"true", "false", "none"}

\* for attempt in range(1, 6)
MaxAttempts == 5
\* backoff = 0.5, in milliseconds
BackoffStart == 500
\* min(backoff * 2, 8.0), in milliseconds
BackoffCap == 8000
\* if resp.status_code in (429, 500, 502, 503, 504)
Retryable == {429, 500, 502, 503, 504}
\* the answers of the controller to a PATCH: a status code, or "exc" when
\* the request raises
PatchAnswers == {200, 404} \cup Retryable
Min(a, b) == IF a < b THEN a ELSE b

\* a worker before _patch_enabled is submitted for its host
WorkerIdle == [pc |-> "idle", attempt |-> 0, backoff |-> 0, sent |-> 0,
               sleeps |-> <<>>, last_status |-> 0, changed |-> FALSE,
               err |-> "none"]

\* _patch_enabled entered: attempt 1, backoff 0.5
patch_start == [WorkerIdle EXCEPT !.pc = "send", !.attempt = 1,
                                  !.backoff = BackoffStart]

\* a faulty handling of the response that retries every status but 200
patch_response_RetryAll(w, status) ==
    LET sent == [w EXCEPT !.sent = w.sent + 1, !.last_status = status]
    IN  IF status = 200
        THEN [sent EXCEPT !.pc = "returned", !.changed = TRUE]
        ELSE [sent EXCEPT !.sleeps = Append(w.sleeps, w.backoff),
                    !.backoff = Min(w.backoff * 2, BackoffCap),
                    !.attempt = w.attempt + 1,
                    !.pc = IF w.attempt = MaxAttempts THEN "returned" ELSE "send",
                    !.err = IF w.attempt = MaxAttempts THEN "Retries exhausted"
                            ELSE "none"]

\* one pass of the loop of _patch_enabled: the PATCH is sent and answered
patch_response(w, status) ==
    LET sent == [w EXCEPT !.sent = w.sent + 1, !.last_status = status]
    IN  IF status = 200
        THEN [sent EXCEPT !.pc = "returned", !.changed = TRUE]
        ELSE IF status \in Retryable
        THEN [sent EXCEPT !.sleeps = Append(w.sleeps, w.backoff),
                    !.backoff = Min(w.backoff * 2, BackoffCap),
                    !.attempt = w.attempt + 1,
                    !.pc = IF w.attempt = MaxAttempts THEN "returned" ELSE "send",
                    !.err = IF w.attempt = MaxAttempts THEN "Retries exhausted"
                            ELSE "none"]
        ELSE [sent EXCEPT !.pc = "returned", !.err = "status"]

RECURSIVE dedup_by_id(_, _)
\* uniq[h["id"]] = h over matched_hosts, then list(uniq.values())
dedup_by_id(hosts, uniq) ==
    IF hosts = <<>> THEN uniq
    ELSE dedup_by_id(Tail(hosts),
            IF \E i \in 1..Len(uniq) : uniq[i].id = Head(hosts).id
            THEN [i \in 1..Len(uniq) |->
                     IF uniq[i].id = Head(hosts).id THEN Head(hosts) ELSE uniq[i]]
            ELSE Append(uniq, Head(hosts)))

\* a faulty test that takes a missing enabled flag for the desired state
already_in_state_NoneIsFine(cur, desired_enabled) ==
    cur = "none" \/ cur = (IF desired_enabled THEN "true" ELSE "false")

\* cur is True or cur is False, and cur == desired_enabled
already_in_state(cur, desired_enabled) ==
    /\ cur \in {"true", "false"}
    /\ cur = (IF desired_enabled THEN "true" ELSE "false")

RECURSIVE classify_hosts(_, _, _)
\* the loop of lines 374-381, acc = [to_change, already]
classify_hosts(hosts, desired_enabled, acc) ==
    IF hosts = <<>> THEN acc
    ELSE classify_hosts(Tail(hosts), desired_enabled,
            IF already_in_state(Head(hosts).enabled, desired_enabled)
            THEN [acc EXCEPT !.already = acc.already + 1]
            ELSE [acc EXCEPT !.to_change = Append(acc.to_change, Head(hosts))])

HostRecords == [id : HostIds, enabled : EnabledValues]

InitHosts ==
    /\ hp \in [pc : {"start"}, check_mode : BOOLEAN, desired_enabled : BOOLEAN,
               api : SeqsUpTo(HostRecords, MaxApiHosts),
               matched : {<<>>}, to_change : {<<>>}, already : {0},
               w : {[h \in HostIds |-> WorkerIdle]}, collected : {{}},
               changed_count : {0}, failures : {<<>>},
               out : {[set |-> FALSE]}]
    /\ file = [exists |-> FALSE, content |-> <<>>] /\ last = NoRun
    /\ ps = Off /\ mg = Off /\ fm = Off /\ gw = Off /\ db = Off
    /\ jd = Off /\ tu = Off

\* main() from the host queries to the end of the to_change loop
HostsClassify ==
    /\ hp.pc = "start"
    /\ LET matched == dedup_by_id(hp.api, <<>>)
           c == classify_hosts(matched, hp.desired_enabled,
                               [to_change |-> <<>>, already |-> 0])
       IN  hp' = [hp EXCEPT !.pc = "classified", !.matched = matched,
                            !.to_change = c.to_change, !.already = c.already]
    /\ UNCHANGED <<file, last, ps, mg, fm, gw, db, jd, tu>>

\* if module.check_mode: module.exit_json(...)
HostsCheckExit ==
    /\ hp.pc = "classified" /\ hp.check_mode
    /\ hp' = [hp EXCEPT !.pc = "done",
                 !.out = [set |-> TRUE, changed |-> Len(hp.to_change) > 0,
                          matched |-> Len(hp.matched),
                          changed_count |-> Len(hp.to_change),
                          already_in_state |-> hp.already, failures |-> <<>>]]
    /\ UNCHANGED <<file, last, ps, mg, fm, gw, db, jd, tu>>

\* ex.submit(_patch_enabled, ...) for every host of to_change
HostsSubmit ==
    /\ hp.pc = "classified" /\ ~hp.check_mode
    /\ hp' = [hp EXCEPT !.pc = "patching",
                 !.w = [h \in HostIds |->
                          IF \E i \in 1..Len(hp.to_change) : hp.to_change[i].id = h
                          THEN patch_start ELSE WorkerIdle]]
    /\ UNCHANGED <<file, last, ps, mg, fm, gw, db, jd, tu>>

\* a worker thread sends the PATCH of host h and gets status
HostsPatch(h, status) ==
    /\ hp.pc = "patching" /\ hp.w[h].pc = "send"
    /\ hp' = [hp EXCEPT !.w[h] = patch_response(hp.w[h], status)]
    /\ UNCHANGED <<file, last, ps, mg, fm, gw, db, jd, tu>>

\* the PATCH of host h raises (no answer): the future holds the exception
HostsPatchRaises(h) ==
    /\ hp.pc = "patching" /\ hp.w[h].pc = "send"
    /\ hp' = [hp EXCEPT !.w[h] = [hp.w[h] EXCEPT !.sent = hp.w[h].sent + 1,
                                     !.last_status = 0,
                                     !.pc = "raised", !.err = "exception"]]
    /\ UNCHANGED <<file, last, ps, mg, fm, gw, db, jd, tu>>

\* one pass of the as_completed loop of main(), for host h
HostsCollect(h) ==
    /\ hp.pc = "patching" /\ h \notin hp.collected
    /\ hp.w[h].pc \in {"returned", "raised"}
    /\ hp' = [hp EXCEPT !.collected = hp.collected \cup {h},
                 !.changed_count =
                     IF hp.w[h].pc = "returned" /\ hp.w[h].changed /\ hp.w[h].err = "none"
                     THEN hp.changed_count + 1 ELSE hp.changed_count,
                 !.failures =
                     IF hp.w[h].pc = "returned" /\ hp.w[h].changed /\ hp.w[h].err = "none"
                     THEN hp.failures ELSE Append(hp.failures, h)]
    /\ UNCHANGED <<file, last, ps, mg, fm, gw, db, jd, tu>>

\* the final module.exit_json(...)
HostsExit ==
    /\ hp.pc = "patching"
    /\ \A h \in HostIds : hp.w[h].pc /= "idle" => h \in hp.collected
    /\ hp' = [hp EXCEPT !.pc = "done",
                 !.out = [set |-> TRUE, changed |-> hp.changed_count > 0,
                          matched |-> Len(hp.matched),
                          changed_count |-> hp.changed_count,
                          already_in_state |-> hp.already,
                          failures |-> hp.failures]]
    /\ UNCHANGED <<file, last, ps, mg, fm, gw, db, jd, tu>>

NextHosts ==
    \/ HostsClassify
    \/ HostsCheckExit
    \/ HostsSubmit
    \/ \E h \in HostIds, status \in PatchAnswers : HostsPatch(h, status)
    \/ \E h \in HostIds : HostsPatchRaises(h)
    \/ \E h \in HostIds : HostsCollect(h)
    \/ HostsExit

SpecHosts == InitHosts /\ [][NextHosts]_vars

C8Matched == {hp.api[i].id : i \in 1..Len(hp.api)}
C8Cur(h) ==
    hp.api[CHOOSE i \in 1..Len(hp.api) :
              hp.api[i].id = h /\ \A j \in (i + 1)..Len(hp.api) : hp.api[j].id /= h].enabled
C8Needs(h) ==
    h \in C8Matched /\ C8Cur(h) /= (IF hp.desired_enabled THEN "true" ELSE "false")

\* C8: a PATCH is sent only for matched hosts whose enabled flag is not the
\* desired value already (a missing/None flag is PATCHed), the other matched
\* hosts are counted in already_in_state, and check mode sends no PATCH and
\* reports changed = (some host needs a change).
C8_PatchOnlyNeeded ==
    hp.pc /= "start" =>
        /\ \A h \in HostIds : hp.w[h].sent > 0 => C8Needs(h)
        /\ {hp.to_change[i].id : i \in 1..Len(hp.to_change)}
              = {h \in HostIds : C8Needs(h)}
        /\ hp.already = Cardinality({h \in C8Matched : ~C8Needs(h)})
        /\ hp.check_mode => \A h \in HostIds : hp.w[h].sent = 0
        /\ hp.pc = "done"
              => /\ hp.out.already_in_state
                      = Cardinality({h \in C8Matched : ~C8Needs(h)})
                 /\ hp.check_mode
                      => hp.out.changed = (\E h \in HostIds : C8Needs(h))
                 /\ ~hp.check_mode
                      => \A h \in HostIds : C8Needs(h) => hp.w[h].sent > 0

\* C8 witness: a finished real run that PATCHed a host whose flag was missing
\* and counted the other host as already in the desired state
C8_Witness ==
    /\ hp.pc = "done" /\ ~hp.check_mode
    /\ hp.out.already_in_state = 1
    /\ \E h \in HostIds : C8Needs(h) /\ C8Cur(h) = "none" /\ hp.w[h].sent > 0

-----------------------------------------------------------------------------
(* gateway-monitor                                                         *)

MaxPolls == 2       \* refresh ticks of the dashboard in one behaviour

HISTORY_LENGTH == 60

Endpoints == <<"gw1", "gw2">>
EndpointSet == {Endpoints[i] : i \in 1..Len(Endpoints)}

\* str.lower() on the letters the status texts use
LowerChar(c) ==
    CASE c = "H" -> "h" [] c = "T" -> "t" [] c = "P" -> "p" [] c = "O" -> "o"
      [] c = "K" -> "k" [] c = "D" -> "d" [] OTHER -> c
Lower(s) == [i \in 1..Len(s) |-> LowerChar(s[i])]

\* word in s
Contains(s, word) ==
    \E i \in 1..(Len(s) - Len(word) + 1) : SubSeq(s, i, i + Len(word) - 1) = word

DigitChar(d) ==
    CASE d = 0 -> "0" [] d = 1 -> "1" [] d = 2 -> "2" [] d = 3 -> "3" [] d = 4 -> "4"
      [] d = 5 -> "5" [] d = 6 -> "6" [] d = 7 -> "7" [] d = 8 -> "8" [] d = 9 -> "9"
RECURSIVE DecStr(_)
\* str(n) for n >= 0
DecStr(n) == IF n < 10 THEN <<DigitChar(n)>> ELSE DecStr(n \div 10) \o <<DigitChar(n % 10)>>

tGood == <<"g", "o", "o", "d">>
tOk == <<"O", "K">>
tOkay == <<"o", "k", "a", "y">>
tHealthy == <<"h", "e", "a", "l", "t", "h", "y">>
tGreen == <<"g", "r", "e", "e", "n">>
tWarn == <<"w", "a", "r", "n">>
tDegrad == <<"d", "e", "g", "r", "a", "d">>
tDegraded == <<"d", "e", "g", "r", "a", "d", "e", "d">>
tYellow == <<"y", "e", "l", "l", "o", "w">>
tBad == <<"b", "a", "d">>
tDown == <<"d", "o", "w", "n">>
tDownCap == <<"D", "o", "w", "n">>
tError == <<"e", "r", "r", "o", "r">>
tFail == <<"f", "a", "i", "l">>
tCritical == <<"c", "r", "i", "t", "i", "c", "a", "l">>
tRed == <<"r", "e", "d">>
tRunning == <<"r", "u", "n", "n", "i", "n", "g">>
tHTTP == <<"H", "T", "T", "P", " ">>

\* a status that is None (a missing "status" field)
NoText == [set |-> FALSE, s |-> <<>>]
Text(s) == [set |-> TRUE, s |-> s]

\* classify_status(status)
classify_status(status) ==
    IF ~status.set THEN "unknown"
    ELSE LET s == Lower(status.s)
         IN  IF s \in {tGood, Lower(tOk), tOkay, tHealthy, tGreen} THEN "good"
             ELSE IF \E word \in {tWarn, tDegrad, tYellow} : Contains(s, word)
                  THEN "warn"
             ELSE IF \E word \in {tBad, tDown, tError, tFail, tCritical, tRed} :
                        Contains(s, word)
                  THEN "bad"
             ELSE "unknown"

\* what one request of fetch_status meets: a response whose JSON has a
\* "status" (or none, and a list of services, or none of both), a response
\* that is no JSON, an HTTP error response, a URL error, a timeout
GwAnswers ==
    {[kind |-> "json", status |-> st, services |-> <<>>, has_services |-> FALSE] :
        st \in {Text(tGood), Text(tOk), Text(tDegraded), Text(tDownCap), NoText}}
    \cup {[kind |-> "json", status |-> NoText, services |-> sv, has_services |-> TRUE] :
            sv \in {<<tRunning>>, <<tRunning, tDown>>, <<tDegraded>>}}
    \cup {[kind |-> "not_json"], [kind |-> "url_error"], [kind |-> "timeout"]}
    \cup {[kind |-> "http_error", code |-> c] : c \in {401, 503}}

\* the overall status fetch_status derives from the services' statuses
services_status(services) ==
    LET statuses == [i \in 1..Len(services) |-> Lower(services[i])]
    IN  IF \E i \in 1..Len(statuses) :
              Contains(statuses[i], tDown) \/ Contains(statuses[i], tFail)
              \/ Contains(statuses[i], tError)
        THEN Text(tBad)
        ELSE IF \E i \in 1..Len(statuses) :
                  Contains(statuses[i], tWarn) \/ Contains(statuses[i], tDegrad)
             THEN Text(tWarn)
             ELSE Text(tGood)

\* fetch_status(...): the status text it returns for an answer
fetch_status(answer, use_ping) ==
    IF answer.kind = "http_error" THEN Text(tHTTP \o DecStr(answer.code))
    ELSE IF answer.kind = "url_error" THEN Text(tDown)
    ELSE IF answer.kind = "timeout" THEN Text(tDown)
    ELSE IF use_ping THEN Text(tGood)
    ELSE IF answer.kind = "not_json" THEN Text(tDown)
    ELSE IF (~answer.status.set \/ answer.status.s = <<>>) /\ answer.has_services
         THEN services_status(answer.services)
         ELSE answer.status

\* the last HISTORY_LENGTH samples
history_append(hist, cls) ==
    LET h == Append(hist, cls)
    IN  IF Len(h) > HISTORY_LENGTH
        THEN SubSeq(h, Len(h) - HISTORY_LENGTH + 1, Len(h)) ELSE h

\* stats[ep] after a sample of class cls
stats_update(st, cls) ==
    IF cls /= "unknown"
    THEN [known |-> st.known + 1,
          non_good |-> IF cls /= "good" THEN st.non_good + 1 ELSE st.non_good]
    ELSE st

\* no answer: the request of the endpoint has not returned, or its result
\* is already taken
NoAnswer == [kind |-> "none"]

\* last_errors[ep]: extra.get("error") or extra.get("body", "") or ""
last_error(answer, use_ping) ==
    IF answer.kind \in {"http_error", "url_error", "timeout"} THEN "error"
    ELSE IF use_ping THEN "body"
    ELSE IF answer.kind = "not_json" THEN "error"
    ELSE ""

\* a worker thread of the executor ends fetch_status: the result is kept in
\* the future of the endpoint
future_set_result(g, ep, answer) ==
    [g EXCEPT !.running = g.running \ {ep}, !.returned[ep] = answer]

InitGw ==
    /\ gw \in [pc : {"tick"}, use_ping : BOOLEAN, async_requests : BOOLEAN,
               ticks : {0}, pending : {{}}, running : {{}},
               returned : {[e \in EndpointSet |-> NoAnswer]},
               histories : {[e \in EndpointSet |-> <<>>]},
               stats : {[e \in EndpointSet |-> [non_good |-> 0, known |-> 0]]},
               last_errors : {[e \in EndpointSet |-> ""]},
               sample : {[e \in EndpointSet |-> [kind |-> "none"]]}]
    /\ file = [exists |-> FALSE, content |-> <<>>] /\ last = NoRun
    /\ ps = Off /\ mg = Off /\ fm = Off /\ hp = Off /\ db = Off
    /\ jd = Off /\ tu = Off

\* the top of the while loop: every endpoint is to be polled; with
\* --async-requests one fetch_status per endpoint is submitted to the executor
GwTick ==
    /\ gw.pc = "tick" /\ gw.ticks < MaxPolls
    /\ gw' = [gw EXCEPT !.pc = "poll", !.pending = EndpointSet,
                        !.running = IF gw.async_requests THEN EndpointSet ELSE {}]
    /\ UNCHANGED <<file, last, ps, mg, fm, hp, db, jd, tu>>

\* a worker thread: the request of endpoint ep returns
GwReturn(ep, answer) ==
    /\ gw.pc = "poll" /\ ep \in gw.running
    /\ gw' = future_set_result(gw, ep, answer)
    /\ UNCHANGED <<file, last, ps, mg, fm, hp, db, jd, tu>>

\* one pass of the polling loop for endpoint ep, in the main thread: in the
\* order of the endpoints with the call of fetch_status in the loop, or with
\* --async-requests for a future that as_completed hands out, with its result
GwPoll(ep, answer) ==
    /\ gw.pc = "poll" /\ ep \in gw.pending
    /\ IF gw.async_requests
       THEN ep \notin gw.running /\ answer = gw.returned[ep]
       ELSE \A i \in 1..Len(Endpoints) :
                Endpoints[i] \in gw.pending
                => \E j \in 1..i : Endpoints[j] = ep
    /\ LET cls == classify_status(fetch_status(answer, gw.use_ping))
       IN  gw' = [gw EXCEPT !.pending = gw.pending \ {ep},
                     !.returned[ep] = NoAnswer,
                     !.histories[ep] = history_append(gw.histories[ep], cls),
                     !.stats[ep] = stats_update(gw.stats[ep], cls),
                     !.last_errors[ep] = last_error(answer, gw.use_ping),
                     !.sample[ep] = [kind |-> answer.kind, cls |-> cls,
                                     stats |-> gw.stats[ep]]]
    /\ UNCHANGED <<file, last, ps, mg, fm, hp, db, jd, tu>>

\* the rows are drawn and the loop waits for the next tick
GwDraw ==
    /\ gw.pc = "poll" /\ gw.pending = {}
    /\ gw' = [gw EXCEPT !.pc = "tick", !.ticks = gw.ticks + 1]
    /\ UNCHANGED <<file, last, ps, mg, fm, hp, db, jd, tu>>

NextGw ==
    \/ GwTick
    \/ \E ep \in EndpointSet, answer \in GwAnswers : GwReturn(ep, answer)
    \/ \E ep \in EndpointSet, answer \in GwAnswers : GwPoll(ep, answer)
    \/ GwDraw

SpecGw == InitGw /\ [][NextGw]_vars

\* C9 (as claimed): in status and in ping mode, a poll that ends in an HTTP
\* error response, a URL error or a timeout is recorded as a BAD sample of
\* its endpoint and counted as non-good in its %NG statistic.
C9_ErrorsAreBad ==
    \A ep \in EndpointSet :
        gw.sample[ep].kind \in {"http_error", "url_error", "timeout"}
            => /\ gw.sample[ep].cls = "bad"
               /\ gw.histories[ep][Len(gw.histories[ep])] = "bad"
               /\ gw.stats[ep].known = gw.sample[ep].stats.known + 1
               /\ gw.stats[ep].non_good = gw.sample[ep].stats.non_good + 1

-----------------------------------------------------------------------------
(* aap-monitor: run_dashboard                                              *)

MaxJobs == 2        \* jobs in one fetched page

\* rows left for the job list (max_visible_jobs), set by the terminal height
DashRows == {0, 2}

\* the "id" of a fetched job: an integer, a string, or no id at all
JobInt1 == [has_id |-> TRUE, id |-> IntV(<<"1">>, 1)]
JobStr2 == [has_id |-> TRUE, id |-> StrV(<<" ", "2">>)]
JobStrX == [has_id |-> TRUE, id |-> StrV(<<"x">>)]
JobNoId == [has_id |-> FALSE, id |-> StrV(<<>>)]
DashJobs == {JobInt1, JobStr2, JobStrX, JobNoId}

IsDigit(c) == c \in {"0", "1", "2", "3", "4", "5", "6", "7", "8", "9"}
DigitVal(c) == CHOOSE d \in 0..9 : DigitChar(d) = c
RECURSIVE DecVal(_)
DecVal(t) ==
    IF t = <<>> THEN 0 ELSE 10 * DecVal(SubSeq(t, 1, Len(t) - 1)) + DigitVal(t[Len(t)])

\* int(v): [ok, n]; a string converts when, stripped, it is all digits
py_int(v) ==
    IF v.ty /= "str" THEN [ok |-> TRUE, n |-> v.n]
    ELSE LET t == Strip(v.s)
         IN  IF t /= <<>> /\ \A i \in 1..Len(t) : IsDigit(t[i])
             THEN [ok |-> TRUE, n |-> DecVal(t)]
             ELSE [ok |-> FALSE, n |-> 0]

\* job_sort_key(j): int(j.get("id", 0)), and 0 when that raises
job_sort_key(j) ==
    IF ~j.has_id THEN 0
    ELSE IF py_int(j.id).ok THEN py_int(j.id).n ELSE 0

RECURSIVE sorted_insert(_, _, _)
\* j put behind the jobs whose key is not smaller (a stable sort)
sorted_insert(done, j, i) ==
    IF i > Len(done) \/ job_sort_key(done[i]) < job_sort_key(j)
    THEN SubSeq(done, 1, i - 1) \o <<j>> \o SubSeq(done, i, Len(done))
    ELSE sorted_insert(done, j, i + 1)

RECURSIVE sorted_reverse_loop(_, _)
sorted_reverse_loop(jobs, done) ==
    IF jobs = <<>> THEN done
    ELSE sorted_reverse_loop(Tail(jobs), sorted_insert(done, Head(jobs), 1))

\* sorted(jobs, key=job_sort_key, reverse=True)
sorted_by_key(jobs) == sorted_reverse_loop(jobs, <<>>)

Max(a, b) == IF a > b THEN a ELSE b

\* lines 889-909: job_selected and job_scroll clamped to the list
clamp_selection(d, len_jobs, max_visible_jobs) ==
    IF len_jobs = 0
    THEN [job_scroll |-> 0, job_selected |-> 0, job_selection_active |-> FALSE]
    ELSE LET sel == IF d.job_selected >= len_jobs THEN len_jobs - 1
                    ELSE d.job_selected
             max_scroll == Max(0, len_jobs - max_visible_jobs)
             s1 == IF d.job_scroll > max_scroll THEN max_scroll ELSE d.job_scroll
             s2 == IF sel < s1 THEN sel ELSE s1
             s3 == IF sel >= s2 + max_visible_jobs
                   THEN Max(0, sel - max_visible_jobs + 1) ELSE s2
         IN  [job_scroll |-> IF max_visible_jobs > 0 THEN s3 ELSE 0,
              job_selected |-> sel,
              job_selection_active |-> d.job_selection_active]

\* the two requests of one fetch
Fetches == {"instances", "jobs"}

\* what fetch_instances returns: (list, None), or on a failure ([], error)
InstanceResults ==
    {[result |-> <<>>, err |-> FALSE], [result |-> <<"i1">>, err |-> FALSE],
     [result |-> <<>>, err |-> TRUE]}

\* what fetch_recent_jobs returns: (page, None), or on a failure ([], error)
JobResults ==
    {[result |-> page, err |-> FALSE] : page \in SeqsUpTo(DashJobs, MaxJobs)}
    \cup {[result |-> <<>>, err |-> TRUE]}

FetchResults(what) == IF what = "instances" THEN InstanceResults ELSE JobResults

\* no result: the request has not returned, or its result is already taken
NoResult == [result |-> <<>>, err |-> FALSE]

\* a faulty worker that stores its result in the dashboard's variables itself
dash_set_result_WorkerWrites(d, what, res) ==
    IF what = "instances"
    THEN [d EXCEPT !.running = d.running \ {what}, !.returned[what] = res,
                   !.instances = res.result, !.inst_error = res.err]
    ELSE [d EXCEPT !.running = d.running \ {what}, !.returned[what] = res,
                   !.jobs = res.result, !.jobs_error = res.err]

\* a worker thread of the executor ends its fetch: the result is kept in the
\* future
dash_set_result(d, what, res) ==
    [d EXCEPT !.running = d.running \ {what}, !.returned[what] = res]

InitDash ==
    /\ db \in [pc : {"loop"}, rows : DashRows,
               instances : {<<>>}, inst_error : {FALSE},
               jobs : {<<>>}, jobs_error : {FALSE},
               pending : {{}}, running : {{}},
               returned : {[f \in Fetches |-> NoResult]},
               jobs_sorted : {<<>>}, visible_jobs : {<<>>},
               job_scroll : {0}, job_selected : {0},
               job_selection_active : {FALSE}]
    /\ file = [exists |-> FALSE, content |-> <<>>] /\ last = NoRun
    /\ ps = Off /\ mg = Off /\ fm = Off /\ hp = Off /\ gw = Off
    /\ jd = Off /\ tu = Off

\* lines 703-707, the poll interval has passed: fetch_instances and
\* fetch_recent_jobs are submitted to the executor
DashSubmit ==
    /\ db.pc = "loop"
    /\ db' = [db EXCEPT !.pc = "fetch", !.pending = Fetches, !.running = Fetches]
    /\ UNCHANGED <<file, last, ps, mg, fm, hp, gw, jd, tu>>

\* a worker thread: the request returns
DashReturn(what, res) ==
    /\ db.pc = "fetch" /\ what \in db.running
    /\ db' = dash_set_result(db, what, res)
    /\ UNCHANGED <<file, last, ps, mg, fm, hp, gw, jd, tu>>

\* lines 709-721, the main thread: as_completed hands out a future that is
\* done and its result is stored; after the last one the loop goes on
DashFetch(what) ==
    /\ db.pc = "fetch" /\ what \in db.pending /\ what \notin db.running
    /\ LET res == db.returned[what]
           d == [db EXCEPT !.pending = db.pending \ {what},
                           !.returned[what] = NoResult,
                           !.pc = IF db.pending = {what} THEN "draw" ELSE "fetch"]
       IN  db' = IF what = "instances"
                 THEN [d EXCEPT !.instances = res.result, !.inst_error = res.err]
                 ELSE [d EXCEPT !.jobs = res.result, !.jobs_error = res.err]
    /\ UNCHANGED <<file, last, ps, mg, fm, hp, gw, jd, tu>>

\* line 703: it is not time to fetch
DashNoFetch ==
    /\ db.pc = "loop"
    /\ db' = [db EXCEPT !.pc = "draw"]
    /\ UNCHANGED <<file, last, ps, mg, fm, hp, gw, jd, tu>>

\* lines 726-985: the screen is drawn; formatting the id of a visible job
\* that has none raises TypeError and ends the dashboard
DashDraw ==
    /\ db.pc = "draw"
    /\ LET jobs_sorted == sorted_by_key(db.jobs)
           len_jobs == Len(jobs_sorted)
           c == clamp_selection(db, len_jobs, db.rows)
           visible_jobs ==
               IF db.rows > 0 /\ len_jobs > 0
               THEN SubSeq(jobs_sorted, c.job_scroll + 1,
                           IF c.job_scroll + db.rows < len_jobs
                           THEN c.job_scroll + db.rows ELSE len_jobs)
               ELSE <<>>
       IN  db' = [db EXCEPT
                    !.pc = IF \E i \in 1..Len(visible_jobs) : ~visible_jobs[i].has_id
                           THEN "crashed" ELSE "key",
                    !.jobs_sorted = jobs_sorted,
                    !.visible_jobs = visible_jobs,
                    !.job_scroll = c.job_scroll,
                    !.job_selected = c.job_selected,
                    !.job_selection_active = c.job_selection_active]
    /\ UNCHANGED <<file, last, ps, mg, fm, hp, gw, jd, tu>>

\* lines 990-1019: one getch(); the navigation keys move the selection
DashKey(ch) ==
    /\ db.pc = "key"
    /\ LET len_jobs == Len(db.jobs_sorted)
       IN  db' =
             IF ch = "q" THEN [db EXCEPT !.pc = "quit"]
             ELSE IF ch = "none" \/ len_jobs = 0 THEN [db EXCEPT !.pc = "loop"]
             ELSE [db EXCEPT
                     !.pc = "loop",
                     !.job_selection_active = TRUE,
                     !.job_selected =
                        CASE ch = "up" ->
                               IF db.job_selected > 0 THEN db.job_selected - 1
                               ELSE db.job_selected
                          [] ch = "down" ->
                               IF db.job_selected < len_jobs - 1
                               THEN db.job_selected + 1 ELSE db.job_selected
                          [] ch = "pgup" ->
                               IF db.rows > 0 THEN Max(0, db.job_selected - db.rows)
                               ELSE 0
                          [] ch = "pgdn" ->
                               IF db.rows > 0
                               THEN Min(len_jobs - 1, db.job_selected + db.rows)
                               ELSE len_jobs - 1]
    /\ UNCHANGED <<file, last, ps, mg, fm, hp, gw, jd, tu>>

NextDash ==
    \/ DashSubmit
    \/ \E what \in Fetches : \E res \in FetchResults(what) : DashReturn(what, res)
    \/ \E what \in Fetches : DashFetch(what)
    \/ DashNoFetch
    \/ DashDraw
    \/ \E ch \in {"none", "q", "up", "down", "pgup", "pgdn"} : DashKey(ch)

SpecDash == InitDash /\ [][NextDash]_vars

\* the integer ID of the jobs of the model, as C10 reads it: 0 for a job
\* without id or with an id that is no integer
C10Id(j) ==
    CASE j = JobInt1 -> 1
      [] j = JobStr2 -> 2
      [] OTHER -> 0

\* the list built by a refresh is a permutation of the fetched jobs in
\* descending order of the integer ID, and the rows are a window of it
C10SortOrder ==
    /\ Len(db.jobs_sorted) = Len(db.jobs)
    /\ \A j \in DashJobs :
          Cardinality({i \in 1..Len(db.jobs_sorted) : db.jobs_sorted[i] = j})
            = Cardinality({i \in 1..Len(db.jobs) : db.jobs[i] = j})
    /\ \A a, b \in 1..Len(db.jobs_sorted) :
          a < b => C10Id(db.jobs_sorted[a]) >= C10Id(db.jobs_sorted[b])
    /\ \E from \in 0..Len(db.jobs_sorted) :
          db.visible_jobs
            = SubSeq(db.jobs_sorted, from + 1, from + Len(db.visible_jobs))

\* C10: every refresh draws the job list, and the list drawn is a
\* permutation of the fetched jobs in descending order of the integer job
\* ID, a job whose id is missing or not convertible to an integer being
\* ordered as ID 0.
C10_SortedDesc ==
    db.pc \in {"key", "crashed", "quit"} =>
        /\ db.pc /= "crashed"
        /\ C10SortOrder

\* the order alone: it holds of every refresh, also of one that ends in the
\* TypeError
C10SortOrderHolds ==
    db.pc \in {"key", "crashed", "quit"} => C10SortOrder

-----------------------------------------------------------------------------
(* the dashboards that fetch in parallel: aap-monitor, and gateway-monitor *)
(* with --async-requests                                                   *)

InitFetch ==
    \/ InitDash
    \/ InitGw /\ gw.async_requests

NextFetch ==
    \/ NextDash
    \/ NextGw

SpecFetch == InitFetch /\ [][NextFetch]_vars

\* the shared state of aap-monitor, per request, and of gateway-monitor, per
\* endpoint
DashShared(what) ==
    IF db.pc = "off" THEN <<>>
    ELSE IF what = "instances" THEN <<db.instances, db.inst_error>>
    ELSE <<db.jobs, db.jobs_error>>

GwShared(ep) ==
    IF gw.pc = "off" THEN <<>>
    ELSE <<gw.histories[ep], gw.stats[ep], gw.last_errors[ep]>>

DashRunning == IF db.pc = "off" THEN {} ELSE db.running
GwRunning == IF gw.pc = "off" THEN {} ELSE gw.running

\* a step of a worker thread: a request returns
C11WorkerStep == DashRunning' /= DashRunning \/ GwRunning' /= GwRunning

\* no step of a worker thread writes the shared state
C11NeverWorker ==
    (C11WorkerStep /\ DashRunning' \subseteq DashRunning /\ GwRunning' \subseteq GwRunning)
        => /\ \A what \in Fetches : DashShared(what)' = DashShared(what)
           /\ \A ep \in EndpointSet : GwShared(ep)' = GwShared(ep)

\* C11 (as claimed): in every tick of the dashboards that fetch in parallel
\* the shared state (instances, jobs, histories, stats, last_errors) is
\* written only after all of the tick's parallel requests have returned, and
\* never by a worker thread.
C11_AfterAllReturned ==
    [][/\ C11NeverWorker
       /\ \A what \in Fetches :
             DashShared(what)' /= DashShared(what) => DashRunning = {}
       /\ \A ep \in EndpointSet :
             GwShared(ep)' /= GwShared(ep) => GwRunning = {}]_vars

\* C11 (amended): the shared state is never written by a worker thread; the
\* main thread writes the part of a request only after that request has
\* returned, and writes the returned result, while other requests of the
\* tick may still be running; the tick goes on to draw only after all its
\* requests have returned and all results are stored.
C11_AfterOwnReturn ==
    [][/\ C11NeverWorker
       /\ \A what \in Fetches :
             DashShared(what)' /= DashShared(what)
                => /\ what \in db.pending /\ what \notin db.running
                   /\ DashShared(what)'
                        = <<db.returned[what].result, db.returned[what].err>>
       /\ \A ep \in EndpointSet :
             GwShared(ep)' /= GwShared(ep)
                => /\ ep \in gw.pending /\ ep \notin gw.running
                   /\ gw.returned[ep] \in GwAnswers
                   /\ LET cls == classify_status(
                                    fetch_status(gw.returned[ep], gw.use_ping))
                      IN  GwShared(ep)'
                            = <<history_append(gw.histories[ep], cls),
                                stats_update(gw.stats[ep], cls),
                                last_error(gw.returned[ep], gw.use_ping)>>
       /\ (db.pc /= "off" /\ db.pc = "fetch" /\ db'.pc /= "fetch")
             => db'.running = {} /\ db'.pending = {}
       /\ (gw.pc /= "off" /\ gw.pc = "poll" /\ gw'.pc /= "poll")
             => gw.running = {} /\ gw.pending = {}]_vars

\* C11 witness: in the first tick of aap-monitor the jobs are stored (and no
\* screen drawn yet) while the instances request is still running
C11_Witness ==
    /\ db.pc = "fetch"
    /\ db.running = {"instances"} /\ db.pending = {"instances"}
    /\ db.jobs /= <<>> /\ db.jobs_sorted = <<>>

-----------------------------------------------------------------------------
(* aap_tui: models/jobs.py Job and ui/screens/job_detail.py JobDetailScreen *)

MaxToggles == 2     \* presses of "s" (toggle_follow) in one behaviour
MaxCounter == 1     \* job events the controller has in one behaviour

\* JobStatus
JobStatus ==
    {"new", "pending", "waiting", "running",
     "successful", "failed", "error", "canceled"}

\* a faulty is_terminal that does not know "canceled"
is_terminal_NoCanceled(status) == status \in {"successful", "failed", "error"}

\* Job.is_terminal
is_terminal(status) == status \in {"successful", "failed", "error", "canceled"}

\* the status lifecycle of a job in the controller: the statuses a job of
\* status st can have next; a finished job keeps its status
NextStatus(st) ==
    CASE st = "new" -> {"pending", "failed", "error", "canceled"}
      [] st = "pending" -> {"waiting", "failed", "error", "canceled"}
      [] st = "waiting" -> {"running", "failed", "error", "canceled"}
      [] st = "running" -> {"successful", "failed", "error", "canceled"}
      [] OTHER -> {}

\* task.cancel() of a task that is not done: CancelledError is thrown into
\* it when it runs next
task_cancel(t) == IF t = "done" THEN t ELSE "cancelling"

\* "if self._poll_task and not self._poll_task.done(): self._poll_task.cancel()"
cancel_poll(d) ==
    IF d._poll_task /= 0
    THEN [d EXCEPT !.tasks[d._poll_task] = task_cancel(d.tasks[d._poll_task])]
    ELSE d

\* "self._poll_task = asyncio.create_task(self._event_follow_loop())"
create_poll(d) ==
    [d EXCEPT !.tasks = Append(d.tasks, "created"),
              !._poll_task = Len(d.tasks) + 1]

\* _fetch_append_events with n new events in the page
fetch_append_events(d, n) ==
    [d EXCEPT !._last_counter = d._last_counter + n]

InitJob ==
    /\ jd \in [pc : {"mount_job"}, follow_enabled : BOOLEAN,
               job_status : JobStatus, title : {"none"},
               _terminal : {FALSE}, _last_counter : {0},
               _status_task : {"none"}, tasks : {<<>>}, _poll_task : {0},
               toggles : {0}]
    /\ file = [exists |-> FALSE, content |-> <<>>] /\ last = NoRun
    /\ ps = Off /\ mg = Off /\ fm = Off /\ hp = Off /\ gw = Off /\ db = Off
    /\ tu = Off

\* the controller: the job goes on in its lifecycle
JobAdvance(st) ==
    /\ jd.pc /= "off" /\ st \in NextStatus(jd.job_status)
    /\ jd' = [jd EXCEPT !.job_status = st]
    /\ UNCHANGED <<file, last, ps, mg, fm, hp, gw, db, tu>>

\* on_mount, lines 44-47: the job is fetched; _terminal and the title are set
MountJob ==
    /\ jd.pc = "mount_job"
    /\ jd' = [jd EXCEPT !.pc = "mount_events",
                        !._terminal = is_terminal(jd.job_status),
                        !.title = jd.job_status]
    /\ UNCHANGED <<file, last, ps, mg, fm, hp, gw, db, tu>>

\* on_mount: client.job or client.job_events raises; on_mount ends there
MountRaises ==
    /\ jd.pc \in {"mount_job", "mount_events"}
    /\ jd' = [jd EXCEPT !.pc = "mount_failed"]
    /\ UNCHANGED <<file, last, ps, mg, fm, hp, gw, db, tu>>

\* on_mount, lines 48-51: the events so far are appended, the status watch
\* loop is created, and the event follow loop if following and not terminal
MountEvents(n) ==
    /\ jd.pc = "mount_events" /\ jd._last_counter + n <= MaxCounter
    /\ LET d == [fetch_append_events(jd, n) EXCEPT
                    !.pc = "mounted", !._status_task = "created"]
       IN  jd' = IF d.follow_enabled /\ ~d._terminal THEN create_poll(d) ELSE d
    /\ UNCHANGED <<file, last, ps, mg, fm, hp, gw, db, tu>>

\* _status_watch_loop, line 63: the loop starts, or wakes from its sleep,
\* and fetches the job
StatusFetch ==
    /\ jd.pc /= "off" /\ jd._status_task \in {"created", "sleeping"}
    /\ jd' = [jd EXCEPT !._status_task = "fetching"]
    /\ UNCHANGED <<file, last, ps, mg, fm, hp, gw, db, tu>>

\* _status_watch_loop, lines 64-71: the job is there; a terminal status sets
\* _terminal, cancels the event follow loop and ends the loop
StatusObserve ==
    /\ jd.pc /= "off" /\ jd._status_task = "fetching"
    /\ LET d == [jd EXCEPT !.title = jd.job_status]
       IN  jd' = IF is_terminal(jd.job_status)
                 THEN [cancel_poll(d) EXCEPT !._terminal = TRUE,
                                             !._status_task = "done"]
                 ELSE [d EXCEPT !._status_task = "sleeping"]
    /\ UNCHANGED <<file, last, ps, mg, fm, hp, gw, db, tu>>

\* _status_watch_loop: client.job raises, or the task is cancelled
StatusEnds ==
    /\ jd.pc /= "off" /\ jd._status_task \in {"fetching", "cancelling"}
    /\ jd' = [jd EXCEPT !._status_task = "done"]
    /\ UNCHANGED <<file, last, ps, mg, fm, hp, gw, db, tu>>

\* _event_follow_loop, line 77: task i starts, or wakes from its sleep, and
\* tests _terminal
PollTest(i) ==
    /\ jd.pc /= "off" /\ i \in 1..Len(jd.tasks)
    /\ jd.tasks[i] \in {"created", "sleeping"}
    /\ jd' = [jd EXCEPT !.tasks[i] = IF jd._terminal THEN "done" ELSE "fetching"]
    /\ UNCHANGED <<file, last, ps, mg, fm, hp, gw, db, tu>>

\* _event_follow_loop, lines 78-79: the events of task i are there
PollEvents(i, n) ==
    /\ jd.pc /= "off" /\ i \in 1..Len(jd.tasks)
    /\ jd.tasks[i] = "fetching" /\ jd._last_counter + n <= MaxCounter
    /\ jd' = [fetch_append_events(jd, n) EXCEPT !.tasks[i] = "sleeping"]
    /\ UNCHANGED <<file, last, ps, mg, fm, hp, gw, db, tu>>

\* _event_follow_loop: client.job_events raises in task i, or the task is
\* cancelled
PollEnds(i) ==
    /\ jd.pc /= "off" /\ i \in 1..Len(jd.tasks)
    /\ jd.tasks[i] \in {"fetching", "cancelling"}
    /\ jd' = [jd EXCEPT !.tasks[i] = "done"]
    /\ UNCHANGED <<file, last, ps, mg, fm, hp, gw, db, tu>>

\* action_toggle_follow, lines 102-109
ToggleFollow ==
    /\ jd.pc \in {"mount_job", "mount_events", "mounted"}
    /\ jd.toggles < MaxToggles
    /\ LET d == [jd EXCEPT !.follow_enabled = ~jd.follow_enabled,
                           !.toggles = jd.toggles + 1]
       IN  jd' = IF d.follow_enabled /\ ~d._terminal
                 THEN IF d._poll_task = 0 \/ d.tasks[d._poll_task] = "done"
                      THEN create_poll(d) ELSE d
                 ELSE cancel_poll(d)
    /\ UNCHANGED <<file, last, ps, mg, fm, hp, gw, db, tu>>

\* on_unmount, lines 53-58: both tasks are cancelled
Unmount ==
    /\ jd.pc = "mounted"
    /\ jd' = [cancel_poll(jd) EXCEPT
                !.pc = "unmounted",
                !._status_task = IF jd._status_task = "none" THEN "none"
                                 ELSE task_cancel(jd._status_task)]
    /\ UNCHANGED <<file, last, ps, mg, fm, hp, gw, db, tu>>

NextJob ==
    \/ \E st \in JobStatus : JobAdvance(st)
    \/ MountJob
    \/ MountRaises
    \/ \E n \in 0..MaxCounter : MountEvents(n)
    \/ StatusFetch
    \/ StatusObserve
    \/ StatusEnds
    \/ \E i \in 1..(MaxToggles + 1) : PollTest(i)
    \/ \E i \in 1..(MaxToggles + 1), n \in 0..MaxCounter : PollEvents(i, n)
    \/ \E i \in 1..(MaxToggles + 1) : PollEnds(i)
    \/ ToggleFollow
    \/ Unmount

SpecJob == InitJob /\ [][NextJob]_vars

\* the statuses C12 names as terminal
C12Terminal == {"successful", "failed", "error", "canceled"}

\* C12: the screen takes a job for terminal exactly when the status it has
\* seen is successful, failed, error or canceled; once it has seen such a
\* status _terminal stays true, and no event follow loop is created
\* afterwards, neither by on_mount nor by toggle_follow, and no loop that
\* exists goes into another round.
C12_TerminalForever ==
    [][/\ jd'.title /= "none" => (jd'._terminal <=> jd'.title \in C12Terminal)
       /\ jd._terminal => jd'._terminal
       /\ (jd._terminal \/ jd.title \in C12Terminal)
             => /\ Len(jd'.tasks) = Len(jd.tasks)
                /\ \A i \in 1..Len(jd.tasks) :
                      jd'.tasks[i] = "fetching" => jd.tasks[i] = "fetching"]_vars

\* C12 witness: the screen was opened without follow, has seen a terminal
\* status, and "s" was pressed then: follow is on and no loop was created
C12_Witness ==
    /\ jd.pc = "mounted" /\ jd._terminal /\ jd.title = "canceled"
    /\ jd.toggles = 1 /\ jd.follow_enabled /\ jd.tasks = <<>>
    /\ jd._status_task = "done"

-----------------------------------------------------------------------------
(* aap_tui2: aap_tui.py AAPTui, the jobs and the Output pane               *)

MaxTuiJobs == 2     \* jobs launched in one behaviour
MaxStdout == 2      \* characters of a job's stdout in one behaviour

TuiJobs == 1..MaxTuiJobs

\* the stdout of job j in the controller when it has n characters; the
\* i-th character of job j is <<j, i>>
Stdout(j, n) == [i \in 1..n |-> <<j, i>>]

\* f"Error fetching stdout: {e}\n"
ErrorText == <<<<0, 0>>>>

\* JobState(...): last_stdout_len = 0, cached_stdout = ""
JobState == [tracked |-> TRUE, last_stdout_len |-> 0, cached_stdout |-> <<>>]
NoJob == [tracked |-> FALSE, last_stdout_len |-> 0, cached_stdout |-> <<>>]

\* no call of _refresh_job_output has just ended
NoCall == [job |-> 0, full |-> FALSE, ok |-> FALSE, txt |-> <<>>]

\* _refresh_job_output(job_id, full) from line 640 on, with the fetched txt
refresh_job_output(t, job_id, full, txt) ==
    LET js == IF t.jobs[job_id].tracked THEN t.jobs[job_id] ELSE JobState
        order == IF t.jobs[job_id].tracked THEN t.order ELSE Append(t.order, job_id)
    IN  IF full
        THEN [t EXCEPT !.jobs[job_id] = [js EXCEPT !.cached_stdout = txt,
                                                   !.last_stdout_len = Len(txt)],
                       !.order = order,
                       !.output = txt]
        ELSE IF Len(txt) > js.last_stdout_len
        THEN [t EXCEPT !.jobs[job_id] = [js EXCEPT !.cached_stdout = txt,
                                                   !.last_stdout_len = Len(txt)],
                       !.order = order,
                       !.output = t.output
                                   \o SubSeq(txt, js.last_stdout_len + 1, Len(txt))]
        ELSE [t EXCEPT !.jobs[job_id] = js, !.order = order]

\* _refresh_job_output(job_id, full), lines 635-638: the fetch raises
refresh_job_output_raises(t, full) ==
    IF full THEN [t EXCEPT !.output = t.output \o ErrorText] ELSE t

\* _poll_jobs_once: on to the next job of the loop, or back to the sleep
poll_next(t) ==
    IF Len(t.todo) > 1
    THEN [t EXCEPT !.todo = Tail(t.todo), !.pc_poll = "get_job"]
    ELSE [t EXCEPT !.todo = <<>>, !.pc_poll = "sleep"]

InitTui ==
    /\ tu = [pc_poll |-> "sleep", todo |-> <<>>,
             handler |-> "idle", hjob |-> 0,
             selected_job_id |-> 0,
             jobs |-> [j \in TuiJobs |-> NoJob], order |-> <<>>,
             stdout |-> [j \in TuiJobs |-> 0],
             output |-> <<>>, done |-> NoCall]
    /\ file = [exists |-> FALSE, content |-> <<>>] /\ last = NoRun
    /\ ps = Off /\ mg = Off /\ fm = Off /\ hp = Off /\ gw = Off /\ db = Off
    /\ jd = Off

\* the controller: a launched job writes one more character of stdout
StdoutGrows(j) ==
    /\ tu.pc_poll /= "off" /\ tu.jobs[j].tracked /\ tu.stdout[j] < MaxStdout
    /\ tu' = [tu EXCEPT !.stdout[j] = tu.stdout[j] + 1, !.done = NoCall]
    /\ UNCHANGED <<file, last, ps, mg, fm, hp, gw, db, jd>>

\* on_execute, lines 547-555: the launch returned job j
Execute(j) ==
    /\ tu.pc_poll /= "off" /\ tu.handler = "idle" /\ ~tu.jobs[j].tracked
    /\ \A k \in TuiJobs : k < j => tu.jobs[k].tracked
    /\ tu' = [tu EXCEPT !.jobs[j] = JobState, !.order = Append(tu.order, j),
                        !.selected_job_id = j, !.output = <<>>, !.done = NoCall]
    /\ UNCHANGED <<file, last, ps, mg, fm, hp, gw, db, jd>>

\* on_tree_selected and handle_template_selected: a template is selected
SelectTemplate ==
    /\ tu.pc_poll /= "off" /\ tu.handler = "idle"
    /\ tu' = [tu EXCEPT !.selected_job_id = 0, !.output = <<>>, !.done = NoCall]
    /\ UNCHANGED <<file, last, ps, mg, fm, hp, gw, db, jd>>

\* on_tree_selected and handle_job_selected, lines 473-477 up to the await
\* of the stdout: the node of job j is selected
SelectJob(j) ==
    /\ tu.pc_poll /= "off" /\ tu.handler = "idle" /\ tu.jobs[j].tracked
    /\ tu' = [tu EXCEPT !.selected_job_id = j, !.output = <<>>,
                        !.handler = "stdout", !.hjob = j, !.done = NoCall]
    /\ UNCHANGED <<file, last, ps, mg, fm, hp, gw, db, jd>>

\* handle_job_selected: _refresh_job_output(job_id, full=True) has the stdout
SelectedStdout ==
    /\ tu.pc_poll /= "off" /\ tu.handler = "stdout"
    /\ LET txt == Stdout(tu.hjob, tu.stdout[tu.hjob])
       IN  tu' = [refresh_job_output(tu, tu.hjob, TRUE, txt) EXCEPT
                     !.handler = "idle", !.hjob = 0,
                     !.done = [job |-> tu.hjob, full |-> TRUE, ok |-> TRUE,
                               txt |-> txt]]
    /\ UNCHANGED <<file, last, ps, mg, fm, hp, gw, db, jd>>

\* handle_job_selected: the fetch of the stdout raises
SelectedStdoutRaises ==
    /\ tu.pc_poll /= "off" /\ tu.handler = "stdout"
    /\ tu' = [refresh_job_output_raises(tu, TRUE) EXCEPT
                 !.handler = "idle", !.hjob = 0,
                 !.done = [job |-> tu.hjob, full |-> TRUE, ok |-> FALSE,
                           txt |-> <<>>]]
    /\ UNCHANGED <<file, last, ps, mg, fm, hp, gw, db, jd>>

\* _poll_jobs_loop and _poll_jobs_once, lines 589-607: after the sleep the
\* loop over list(self.jobs.items()) starts
PollJobs ==
    /\ tu.pc_poll = "sleep" /\ tu.order /= <<>>
    /\ tu' = [tu EXCEPT !.pc_poll = "get_job", !.todo = tu.order, !.done = NoCall]
    /\ UNCHANGED <<file, last, ps, mg, fm, hp, gw, db, jd>>

\* _poll_jobs_once, lines 607-627: get_job returns (or raises: continue);
\* the stdout of the selected job is fetched next
PollGetJob(ok) ==
    /\ tu.pc_poll = "get_job"
    /\ tu' = IF ok /\ tu.selected_job_id = Head(tu.todo)
             THEN [tu EXCEPT !.pc_poll = "stdout", !.done = NoCall]
             ELSE [poll_next(tu) EXCEPT !.done = NoCall]
    /\ UNCHANGED <<file, last, ps, mg, fm, hp, gw, db, jd>>

\* _poll_jobs_once: _refresh_job_output(job_id, full=False) has the stdout
PollStdout ==
    /\ tu.pc_poll = "stdout"
    /\ LET job_id == Head(tu.todo)
           txt == Stdout(job_id, tu.stdout[job_id])
       IN  tu' = [poll_next(refresh_job_output(tu, job_id, FALSE, txt)) EXCEPT
                     !.done = [job |-> job_id, full |-> FALSE, ok |-> TRUE,
                               txt |-> txt]]
    /\ UNCHANGED <<file, last, ps, mg, fm, hp, gw, db, jd>>

\* _poll_jobs_once: the fetch of the stdout raises
PollStdoutRaises ==
    /\ tu.pc_poll = "stdout"
    /\ tu' = [poll_next(refresh_job_output_raises(tu, FALSE)) EXCEPT
                 !.done = [job |-> Head(tu.todo), full |-> FALSE, ok |-> FALSE,
                           txt |-> <<>>]]
    /\ UNCHANGED <<file, last, ps, mg, fm, hp, gw, db, jd>>

NextTui ==
    \/ \E j \in TuiJobs : StdoutGrows(j)
    \/ \E j \in TuiJobs : Execute(j)
    \/ SelectTemplate
    \/ \E j \in TuiJobs : SelectJob(j)
    \/ SelectedStdout
    \/ SelectedStdoutRaises
    \/ PollJobs
    \/ \E ok \in BOOLEAN : PollGetJob(ok)
    \/ PollStdout
    \/ PollStdoutRaises

SpecTui == InitTui /\ [][NextTui]_vars

\* for every tracked job last_stdout_len = len(cached_stdout)
C13LenIsCached ==
    \A j \in TuiJobs :
        tu.jobs[j].tracked
            => tu.jobs[j].last_stdout_len = Len(tu.jobs[j].cached_stdout)

\* C13: the stdout of a job only grows; when a call of _refresh_job_output
\* (full or incremental) for the selected job has just ended with a fetched
\* stdout, the text of the Output pane is that stdout; and for every tracked
\* job last_stdout_len = len(cached_stdout) at all times.
C13_PaneIsStdout ==
    /\ C13LenIsCached
    /\ (tu.done.ok /\ tu.done.job = tu.selected_job_id)
          => tu.output = tu.done.txt

\* the second half of C13 alone
C13LenIsCachedHolds == C13LenIsCached

====
